---- MODULE Spec2Model ----
(***************************************************************************)
(* State-machine model of python/grpc_opentracing/_client.py: the          *)
(* client-side open-tracing interceptor (OpenTracingClientInterceptor),    *)
(* the deferred-result wrapper (_OpenTracingRendezvous) and the helpers    *)
(* _inject_span_context and _wrap_result.                                  *)
(*                                                                         *)
(* The tracer, the underlying invoker, the deferred handle and the         *)
(* response sequence are the environment: each of their calls is a step    *)
(* whose outcome is chosen nondeterministically from small sets.           *)
(***************************************************************************)
EXTENDS Integers, Sequences, FiniteSets, TLC

\* ------------------------------------------------------------------ bounds
MaxItems == 2        \* items an underlying response sequence may produce
MaxResultCalls == 2  \* result() calls a caller makes on one wrapper
MaxTime == 2         \* readings of time.time() are 0..MaxTime

\* ------------------------------------------------------------ value spaces
AllCalls == {1, 2}           \* call slots of one interceptor instance
Calls == {1}                 \* calls made under Spec (one at a time)
Responses == {"r1", "r2"}    \* response payloads
Requests == {"q1"}           \* request payloads
Failures == {"RpcError", "ValueError"}   \* what the invoker / sequence raises
CodecFailures == {"InvalidCarrierException", "SpanContextCorruptedException"}
Methods == {"/pkg.Service/Get"}

\* A metadata value: None, or a sequence of (key, value) pairs.
MdNone == [isNone |-> TRUE, pairs |-> <<>>]
Md(p) == [isNone |-> FALSE, pairs |-> p]
MetadataChoices == {MdNone, Md(<< <<"k", "v">> >>)}

\* ------------------------------------------------------------------ state
VARIABLES
  spans,          \* the tracer's spans, in creation order
  now,            \* time.time()
  log_payloads,   \* OpenTracingClientInterceptor._log_payloads
  traced_attributes,   \* OpenTracingClientInterceptor._traced_attributes
  active_span_source,  \* OpenTracingClientInterceptor._active_span_source
  pc,             \* per call: position of the entry point / generator frame
  info,           \* per call: the entry point's arguments
  span,           \* per call: the local `span` of the with block (0: none)
  metadata,       \* per call: the local `metadata` after injection
  callerMd,       \* per call: contents of the caller's metadata object
  invoked,        \* per call: the arguments the underlying invoker received
  under,          \* per call: what the underlying invoker did
  ret,            \* per call: what the entry point gave its caller
  produced,       \* per call: items the underlying sequence produced
  yielded,        \* per call: items the consumer received
  gen,            \* per call: how the generator ended, as the consumer saw it
  rdv,            \* per call: the underlying deferred handle
  fwd,            \* per call: the last pass-through operation on the wrapper
  rpc,            \* per call: position inside the wrapper's result()
  rloc,           \* per call: locals of the running result() call
  rout,           \* per call: outcomes of the finished result() calls
  trace           \* per call: history of the core's events, in order

confVars == <<log_payloads, traced_attributes, active_span_source>>
syncVars == <<pc, info, span, metadata, callerMd, invoked, under, ret>>
streamVars == <<produced, yielded, gen>>
futVars == <<rdv, fwd, rpc, rloc, rout>>
vars == <<spans, now, confVars, syncVars, streamVars, futVars, trace>>

\* ----------------------------------------------------------- tracer, spans
\* opentracing.Tracer.start_span: a new span, not finished, no logs.
NewSpan(op, refs, tags, start, owner, role, seq) ==
  [operation_name |-> op, references |-> refs, tags |-> tags,
   start_time |-> start, logs |-> <<>>, finishes |-> 0,
   owner |-> owner, role |-> role, seq |-> seq]

\* Span.set_tag
SetTag(S, i, k, v) == [S EXCEPT ![i].tags = (k :> v) @@ @]

\* Span.log_kv
LogKV(S, i, e) == [S EXCEPT ![i].logs = Append(@, e)]

\* Span.finish
Finish(S, i) == [S EXCEPT ![i].finishes = @ + 1]

\* Log events.  obj is the logged object; isType tells a logged exception
\* class (sys.exc_info()[0]) from a logged exception instance.
RequestEvent(q) == [event |-> "request", obj |-> q, isType |-> FALSE]
ResponseEvent(r) == [event |-> "response", obj |-> r, isType |-> FALSE]
ErrorEvent(e, isType) == [event |-> "error", obj |-> e, isType |-> isType]

CountEvents(S, i, ev) ==
  Cardinality({k \in 1..Len(S[i].logs) : S[i].logs[k].event = ev})

HasErrorTag(S, i) == "error" \in DOMAIN S[i].tags

\* ------------------------------------------------------- outcomes of calls
NoOutcome == [kind |-> "none", response |-> "", with_call |-> FALSE, exc |-> "",
              log_payloads |-> FALSE]
\* an immediate response r, or the tuple (r, call) of with_call
Immediate(r, wc) == [NoOutcome EXCEPT !.kind = "immediate", !.response = r,
                                      !.with_call = wc]
Raised(f) == [NoOutcome EXCEPT !.kind = "raise", !.exc = f]
AFuture == [NoOutcome EXCEPT !.kind = "future"]       \* a grpc.Future
AWrapper == [NoOutcome EXCEPT !.kind = "wrapper"]     \* _OpenTracingRendezvous
ASequence == [NoOutcome EXCEPT !.kind = "sequence"]   \* a response iterator
Exhausted == [NoOutcome EXCEPT !.kind = "exhausted"]  \* the iterator, at its end
AGenerator == [NoOutcome EXCEPT !.kind = "generator"] \* the wrapping generator
Stopped == [NoOutcome EXCEPT !.kind = "stop"]         \* StopIteration
Closed == [NoOutcome EXCEPT !.kind = "closed"]        \* close() returned

NoInfo == [entry |-> "", request |-> "", metadata |-> MdNone, full_method |-> "",
           timeout |-> 0, is_client_stream |-> FALSE, is_server_stream |-> FALSE]
NotInvoked == [called |-> FALSE, request |-> "", wrapped |-> FALSE,
               metadata |-> MdNone, inject_failure |-> ""]

\* The underlying deferred handle (a grpc.Future that is a grpc.Call).
NoHandle == [state |-> "none", response |-> "", exc |-> "", trailing |-> <<>>]
PendingHandle == [NoHandle EXCEPT !.state = "pending"]
NoForward == [op |-> "", args |-> "", received |-> "", hret |-> "", wret |-> ""]
NoLocals == [start_time |-> 0, timeout |-> 0, span |-> 0]

\* A timeout in seconds; 0 stands for None.
TimeoutChoices == {0, 1}
\* client_info.timeout of the calls made
CallTimeouts == {1}

\* ---------------------------------------------------------------- helpers
\* (variant: the except block logs the failure but does not tag the span)
OnExceptionNoTag(S, i, e) == LogKV(S, i, ErrorEvent(e, TRUE))

\* The except blocks (lines 187-191, 213-217, 230-234, 77-81): tag the span,
\* log the exception class, re-raise.
OnException(S, i, e) == LogKV(SetTag(S, i, "error", TRUE), i, ErrorEvent(e, TRUE))

\* (variant: the span is used without the with block and never finished)
WithExitLeak(S, i) == S

\* Leaving a `with ... as span:` block, normally or by an exception:
\* Span.__exit__ finishes the span.
WithExit(S, i) == Finish(S, i)

\* The tracer's carrier for a span's context (tracer.inject fills `headers`).
Headers(i) == << <<"ot-span-id", ToString(i)>> >>

\* (variant: on a codec failure the metadata is replaced by an empty tuple)
_inject_span_context_drops_metadata(S, i, md, failure) ==
  IF failure # ""
    THEN [spans |-> LogKV(S, i, ErrorEvent(failure, FALSE)), metadata |-> Md(<<>>)]
    ELSE [spans |-> S,
          metadata |-> Md((IF md.isNone THEN <<>> ELSE md.pairs) \o Headers(i))]

\* _inject_span_context(tracer, span, metadata); failure = "" when
\* tracer.inject returns, else the codec exception it raises.
\* Gives the spans and the returned metadata.
_inject_span_context(S, i, md, failure) ==
  IF failure # ""
    THEN [spans |-> LogKV(S, i, ErrorEvent(failure, FALSE)), metadata |-> md]
    ELSE [spans |-> S,
          metadata |-> Md((IF md.isNone THEN <<>> ELSE md.pairs) \o Headers(i))]

\* What _inject_span_context leaves in the caller's metadata object: line 124
\* builds a new tuple, the argument is not written to.
CallerMetadataAfterInject(md, failure) == md

\* (variant: an immediate result is tagged as a failure)
_wrap_result_tags_error(S, i, lp, result) ==
  IF result.kind = "future"
    THEN [spans |-> S, value |-> [AWrapper EXCEPT !.log_payloads = lp]]
    ELSE [spans |-> SetTag(S, i, "error", TRUE), value |-> result]

\* (variant: of a (response, call) tuple only the response is returned)
_wrap_result_unwraps_tuple(S, i, lp, result) ==
  IF result.kind = "future"
    THEN [spans |-> S, value |-> [AWrapper EXCEPT !.log_payloads = lp]]
    ELSE [spans |-> IF lp THEN LogKV(S, i, ResponseEvent(result.response)) ELSE S,
          value |-> [result EXCEPT !.with_call = FALSE]]

\* _wrap_result(tracer, span, method, log_payloads, result).
\* Gives the spans and the value returned.
_wrap_result(S, i, lp, result) ==
  IF result.kind = "future"
    THEN [spans |-> S, value |-> [AWrapper EXCEPT !.log_payloads = lp]]
    ELSE [spans |-> IF lp THEN LogKV(S, i, ResponseEvent(result.response)) ELSE S,
          value |-> result]

\* ----------------------------------------------------------- span builder
\* get_method_type(is_client_stream, is_server_stream) of _utilities
get_method_type(cs, ss) ==
  IF cs THEN (IF ss THEN "BIDI_STREAMING" ELSE "CLIENT_STREAMING")
        ELSE (IF ss THEN "SERVER_STREAMING" ELSE "UNARY")

\* get_deadline_millis(timeout) of _utilities
get_deadline_millis(timeout) ==
  IF timeout = 0 THEN "None" ELSE ToString(timeout * 1000)

\* (variant: an entry that is not recognised is tagged as well)
AttributeTagKeepsUnknown(a, method, md, cs, ss, timeout) ==
  CASE a = "HEADERS" -> ("grpc.headers" :> md)
    [] a = "METHOD_TYPE" -> ("grpc.method_type" :> get_method_type(cs, ss))
    [] a = "METHOD_NAME" -> ("grpc.method_name" :> method)
    [] a = "DEADLINE" -> ("grpc.deadline_millis" :> get_deadline_millis(timeout))
    [] OTHER -> ("grpc.unknown" :> a)

\* The tag one entry of traced_attributes adds (lines 163-175); an entry
\* that is not recognised only logs a warning.
AttributeTag(a, method, md, cs, ss, timeout) ==
  CASE a = "HEADERS" -> ("grpc.headers" :> md)
    [] a = "METHOD_TYPE" -> ("grpc.method_type" :> get_method_type(cs, ss))
    [] a = "METHOD_NAME" -> ("grpc.method_name" :> method)
    [] a = "DEADLINE" -> ("grpc.deadline_millis" :> get_deadline_millis(timeout))
    [] OTHER -> <<>>

RECURSIVE AttributeTags(_, _, _, _, _, _)
AttributeTags(as, method, md, cs, ss, timeout) ==
  IF as = {} THEN <<>>
  ELSE LET a == CHOOSE x \in as : TRUE
       IN AttributeTag(a, method, md, cs, ss, timeout)
            @@ AttributeTags(as \ {a}, method, md, cs, ss, timeout)

\* (variant: the active span is not looked up, every span is a root span)
ActiveSpanContextDropped(source) == <<>>

\* self._active_span_source: "None" (no source), "idle" (a source whose
\* get_active_span() gives None) or "active" (it gives a span).
ActiveSpanContext(source) ==
  IF source = "active" THEN << [type |-> "child_of", ctx |-> "active-ctx"] >>
  ELSE <<>>

\* OpenTracingClientInterceptor._start_span: the span handed to the tracer.
_start_span(c, method, md, cs, ss, timeout) ==
  NewSpan(method, ActiveSpanContext(active_span_source),
          AttributeTags(traced_attributes, method, md, cs, ss, timeout)
            @@ ("component" :> "grpc") @@ ("span.kind" :> "client"),
          now, c, "submission", 0)

\* ------------------------------------------------------------------- Init
TracedChoices == {{"METHOD_NAME"}}
ActiveChoices == {"None"}

Init ==
  /\ spans = <<>>
  /\ now = 0
  /\ log_payloads \in BOOLEAN
  /\ traced_attributes \in TracedChoices
  /\ active_span_source \in ActiveChoices
  /\ pc = [c \in AllCalls |-> "idle"]
  /\ info = [c \in AllCalls |-> NoInfo]
  /\ span = [c \in AllCalls |-> 0]
  /\ metadata = [c \in AllCalls |-> MdNone]
  /\ callerMd = [c \in AllCalls |-> MdNone]
  /\ invoked = [c \in AllCalls |-> NotInvoked]
  /\ under = [c \in AllCalls |-> NoOutcome]
  /\ ret = [c \in AllCalls |-> NoOutcome]
  /\ produced = [c \in AllCalls |-> <<>>]
  /\ yielded = [c \in AllCalls |-> <<>>]
  /\ gen = [c \in AllCalls |-> NoOutcome]
  /\ rdv = [c \in AllCalls |-> NoHandle]
  /\ fwd = [c \in AllCalls |-> NoForward]
  /\ rpc = [c \in AllCalls |-> "none"]
  /\ rloc = [c \in AllCalls |-> NoLocals]
  /\ rout = [c \in AllCalls |-> <<>>]
  /\ trace = [c \in AllCalls |-> <<>>]

\* ------------------------------------------------------ the entry points
\* Which with block a call is in: intercept_unary (179-193), the generator
\* _intercept_server_stream (198-217), or the rest of intercept_stream
\* (224-236).
IsServerStream(c) == info[c].entry = "intercept_stream" /\ info[c].is_server_stream

\* The caller calls intercept_unary or intercept_stream.  With
\* is_server_stream, intercept_stream returns the generator of
\* _intercept_server_stream, whose body has not started to run.
Enter(c) ==
  /\ pc[c] = "idle"
  /\ \E e \in {"intercept_unary", "intercept_stream"}, cs \in BOOLEAN, ss \in BOOLEAN,
        q \in Requests, md \in MetadataChoices, m \in Methods, t \in CallTimeouts :
       /\ e = "intercept_unary" => (~cs /\ ~ss)
       /\ e = "intercept_stream" => (cs \/ ss)
       /\ info' = [info EXCEPT ![c] =
             [entry |-> e, request |-> q, metadata |-> md, full_method |-> m,
              timeout |-> t, is_client_stream |-> cs, is_server_stream |-> ss]]
       /\ metadata' = [metadata EXCEPT ![c] = md]
       /\ callerMd' = [callerMd EXCEPT ![c] = md]
       /\ IF e = "intercept_stream" /\ ss
            THEN /\ pc' = [pc EXCEPT ![c] = "generator"]
                 /\ ret' = [ret EXCEPT ![c] = AGenerator]
            ELSE /\ pc' = [pc EXCEPT ![c] = "start_span"]
                 /\ ret' = ret
  /\ UNCHANGED <<spans, now, confVars, span, invoked, under, streamVars, futVars, trace>>

\* (variant: the invoker is called with the metadata as given, the injection
\* is left out)
StartSpanSkipsInject(c) ==
  /\ pc[c] = "start_span"
  /\ spans' = Append(spans,
       _start_span(c, info[c].full_method, info[c].metadata,
                       IF info[c].entry = "intercept_unary" THEN FALSE
                       ELSE info[c].is_client_stream,
                       IsServerStream(c), info[c].timeout))
  /\ span' = [span EXCEPT ![c] = Len(spans) + 1]
  /\ pc' = [pc EXCEPT ![c] = "invoke"]
  /\ trace' = [trace EXCEPT ![c] = Append(@, "start")]
  /\ UNCHANGED <<now, confVars, info, metadata, callerMd, invoked, under, ret,
                 streamVars, futVars>>

\* with self._start_span(...) as span   (lines 180, 200, 224)
StartSpan(c) ==
  /\ pc[c] = "start_span"
  /\ spans' = Append(spans,
       _start_span(c, info[c].full_method, info[c].metadata,
                       IF info[c].entry = "intercept_unary" THEN FALSE
                       ELSE info[c].is_client_stream,
                       IsServerStream(c), info[c].timeout))
  /\ span' = [span EXCEPT ![c] = Len(spans) + 1]
  /\ pc' = [pc EXCEPT ![c] = "inject"]
  /\ trace' = [trace EXCEPT ![c] = Append(@, "start")]
  /\ UNCHANGED <<now, confVars, info, metadata, callerMd, invoked, under, ret,
                 streamVars, futVars>>

\* log_or_wrap_request_or_iterator(span, is_client_stream, request_or_iterator)
\* of _utilities: a single request is logged at once, a request iterator is
\* wrapped so that each item is logged when the invoker takes it.
log_or_wrap_request_or_iterator(S, i, cs, q) ==
  IF cs THEN [spans |-> S, wrapped |-> TRUE]
        ELSE [spans |-> LogKV(S, i, RequestEvent(q)), wrapped |-> FALSE]

\* The request logging between injection and invocation: lines 183-184 of
\* intercept_unary, 204-206 of _intercept_server_stream, none in
\* intercept_stream.
LogRequest(S, c) ==
  IF ~log_payloads THEN [spans |-> S, wrapped |-> FALSE]
  ELSE IF info[c].entry = "intercept_unary"
    THEN [spans |-> LogKV(S, span[c], RequestEvent(info[c].request)),
          wrapped |-> FALSE]
  ELSE IF IsServerStream(c)
    THEN log_or_wrap_request_or_iterator(S, span[c], info[c].is_client_stream,
                                    info[c].request)
  ELSE [spans |-> S, wrapped |-> FALSE]

\* metadata = _inject_span_context(self._tracer, span, metadata), then the
\* request logging   (lines 182-184, 203-206, 227)
Inject(c) ==
  /\ pc[c] = "inject"
  /\ \E failure \in {""} \cup CodecFailures :
       LET r == _inject_span_context(spans, span[c], metadata[c], failure)
           l == LogRequest(r.spans, c)
       IN /\ spans' = l.spans
          /\ metadata' = [metadata EXCEPT ![c] = r.metadata]
          /\ callerMd' = [callerMd EXCEPT ![c] =
                            CallerMetadataAfterInject(callerMd[c], failure)]
          /\ invoked' = [invoked EXCEPT ![c].wrapped = l.wrapped,
                                        ![c].inject_failure = failure]
  /\ pc' = [pc EXCEPT ![c] = "invoke"]
  /\ trace' = [trace EXCEPT ![c] = Append(@, "inject")]
  /\ UNCHANGED <<now, confVars, info, span, under, ret, streamVars, futVars>>

\* result = invoker(request, metadata): the call is made   (186, 208, 229)
Invoke(c) ==
  /\ pc[c] = "invoke"
  /\ invoked' = [invoked EXCEPT ![c].called = TRUE,
                                ![c].request = info[c].request,
                                ![c].metadata = metadata[c]]
  /\ pc' = [pc EXCEPT ![c] = "in_invoker"]
  /\ trace' = [trace EXCEPT ![c] = Append(@, "invoke")]
  /\ UNCHANGED <<spans, now, confVars, info, span, metadata, callerMd, under, ret,
                 streamVars, futVars>>

\* (variant: the span is kept on the interceptor, which all calls share: the
\* except block and the exit act on the span started last)
InvokerRaisesOnLatestSpan(c) ==
  /\ pc[c] = "in_invoker"
  /\ \E f \in Failures :
       /\ under' = [under EXCEPT ![c] = Raised(f)]
       /\ spans' = WithExit(OnException(spans, Len(spans), f), Len(spans))
       /\ IF IsServerStream(c)
            THEN gen' = [gen EXCEPT ![c] = Raised(f)] /\ ret' = ret
            ELSE ret' = [ret EXCEPT ![c] = Raised(f)] /\ gen' = gen
  /\ pc' = [pc EXCEPT ![c] = "done"]
  /\ trace' = [trace EXCEPT ![c] = @ \o <<"outcome", "finish">>]
  /\ UNCHANGED <<now, confVars, info, span, metadata, callerMd, invoked,
                 produced, yielded, futVars>>

\* The invoker raises: the except block, the with block's exit, and the
\* failure goes on to the caller (of the entry point, or of next()).
InvokerRaises(c) ==
  /\ pc[c] = "in_invoker"
  /\ \E f \in Failures :
       /\ under' = [under EXCEPT ![c] = Raised(f)]
       /\ spans' = WithExit(OnException(spans, span[c], f), span[c])
       /\ IF IsServerStream(c)
            THEN gen' = [gen EXCEPT ![c] = Raised(f)] /\ ret' = ret
            ELSE ret' = [ret EXCEPT ![c] = Raised(f)] /\ gen' = gen
  /\ pc' = [pc EXCEPT ![c] = "done"]
  /\ trace' = [trace EXCEPT ![c] = @ \o <<"outcome", "finish">>]
  /\ UNCHANGED <<now, confVars, info, span, metadata, callerMd, invoked,
                 produced, yielded, futVars>>

\* What the invoker of a call without response stream may return.
SyncResults == {Immediate(r, wc) : r \in Responses, wc \in BOOLEAN} \cup {AFuture}

\* The log_payloads argument of _wrap_result: self._log_payloads at line
\* 192, False at line 235.
WrapLogPayloads(c) ==
  IF info[c].entry = "intercept_unary" THEN log_payloads ELSE FALSE

\* The invoker returns to intercept_unary or intercept_stream:
\* return _wrap_result(...), leaving the with block   (192-193, 235-236)
InvokerReturns(c) ==
  /\ pc[c] = "in_invoker"
  /\ ~IsServerStream(c)
  /\ \E res \in SyncResults :
       LET w == _wrap_result(spans, span[c], WrapLogPayloads(c), res)
       IN /\ under' = [under EXCEPT ![c] = res]
          /\ spans' = WithExit(w.spans, span[c])
          /\ ret' = [ret EXCEPT ![c] = w.value]
          /\ rdv' = [rdv EXCEPT ![c] =
                       IF res.kind = "future" THEN PendingHandle ELSE @]
  /\ pc' = [pc EXCEPT ![c] = "done"]
  /\ trace' = [trace EXCEPT ![c] = @ \o <<"outcome", "finish">>]
  /\ UNCHANGED <<now, confVars, info, span, metadata, callerMd, invoked,
                 streamVars, fwd, rpc, rloc, rout>>

\* ------------------------------------------------- the response generator
\* The invoker returns the response sequence to the generator, which goes
\* on to take its first item   (208-209)
InvokerReturnsSequence(c) ==
  /\ pc[c] = "in_invoker"
  /\ IsServerStream(c)
  /\ under' = [under EXCEPT ![c] = ASequence]
  /\ pc' = [pc EXCEPT ![c] = "pull"]
  /\ UNCHANGED <<spans, now, confVars, info, span, metadata, callerMd, invoked, ret,
                 streamVars, futVars, trace>>

\* The consumer calls next() on the generator: it starts, or resumes after
\* its yield.
GenNext(c) ==
  /\ pc[c] \in {"generator", "yielded"}
  /\ pc' = [pc EXCEPT ![c] = IF pc[c] = "generator" THEN "start_span" ELSE "pull"]
  /\ UNCHANGED <<spans, now, confVars, info, span, metadata, callerMd, invoked,
                 under, ret, streamVars, futVars, trace>>

\* (variant: the with block is inside the loop, the span is finished at
\* every item)
PullItemFinishes(c) ==
  /\ pc[c] = "pull"
  /\ Len(produced[c]) < MaxItems
  /\ \E r \in Responses :
       /\ produced' = [produced EXCEPT ![c] = Append(@, r)]
       /\ spans' = WithExit(IF log_payloads
                              THEN LogKV(spans, span[c], ResponseEvent(r))
                              ELSE spans, span[c])
       /\ yielded' = [yielded EXCEPT ![c] = Append(@, r)]
  /\ pc' = [pc EXCEPT ![c] = "yielded"]
  /\ UNCHANGED <<now, confVars, info, span, metadata, callerMd, invoked, under, ret,
                 gen, futVars, trace>>

\* The underlying sequence produces an item: it is logged and yielded
\* (209-212)
PullItem(c) ==
  /\ pc[c] = "pull"
  /\ Len(produced[c]) < MaxItems
  /\ \E r \in Responses :
       /\ produced' = [produced EXCEPT ![c] = Append(@, r)]
       /\ spans' = IF log_payloads THEN LogKV(spans, span[c], ResponseEvent(r))
                                   ELSE spans
       /\ yielded' = [yielded EXCEPT ![c] = Append(@, r)]
  /\ pc' = [pc EXCEPT ![c] = "yielded"]
  /\ UNCHANGED <<now, confVars, info, span, metadata, callerMd, invoked, under, ret,
                 gen, futVars, trace>>

\* The underlying sequence is exhausted: the loop and the with block end,
\* the generator returns   (209, 200)
PullEnds(c) ==
  /\ pc[c] = "pull"
  /\ under' = [under EXCEPT ![c] = Exhausted]
  /\ spans' = WithExit(spans, span[c])
  /\ gen' = [gen EXCEPT ![c] = Stopped]
  /\ pc' = [pc EXCEPT ![c] = "done"]
  /\ trace' = [trace EXCEPT ![c] = @ \o <<"outcome", "finish">>]
  /\ UNCHANGED <<now, confVars, info, span, metadata, callerMd, invoked, ret,
                 produced, yielded, futVars>>

\* (variant: the except block does not re-raise, the generator just ends)
PullRaisesSwallows(c) ==
  /\ pc[c] = "pull"
  /\ \E f \in Failures :
       /\ under' = [under EXCEPT ![c].exc = f]
       /\ spans' = WithExit(OnException(spans, span[c], f), span[c])
       /\ gen' = [gen EXCEPT ![c] = Stopped]
  /\ pc' = [pc EXCEPT ![c] = "done"]
  /\ trace' = [trace EXCEPT ![c] = @ \o <<"outcome", "finish">>]
  /\ UNCHANGED <<now, confVars, info, span, metadata, callerMd, invoked, ret,
                 produced, yielded, futVars>>

\* The underlying sequence raises   (213-217)
PullRaises(c) ==
  /\ pc[c] = "pull"
  /\ \E f \in Failures :
       /\ under' = [under EXCEPT ![c].exc = f]
       /\ spans' = WithExit(OnException(spans, span[c], f), span[c])
       /\ gen' = [gen EXCEPT ![c] = Raised(f)]
  /\ pc' = [pc EXCEPT ![c] = "done"]
  /\ trace' = [trace EXCEPT ![c] = @ \o <<"outcome", "finish">>]
  /\ UNCHANGED <<now, confVars, info, span, metadata, callerMd, invoked, ret,
                 produced, yielded, futVars>>

\* The consumer closes the generator.  Not started, it just ends.  Suspended
\* at its yield, GeneratorExit is raised there: the bare except of line 213
\* catches it, and the with block ends.
GenClose(c) ==
  /\ pc[c] \in {"generator", "yielded"}
  /\ IF pc[c] = "yielded"
       THEN /\ spans' = WithExit(OnException(spans, span[c], "GeneratorExit"), span[c])
            /\ trace' = [trace EXCEPT ![c] = @ \o <<"outcome", "finish">>]
       ELSE UNCHANGED <<spans, trace>>
  /\ gen' = [gen EXCEPT ![c] = Closed]
  /\ pc' = [pc EXCEPT ![c] = "done"]
  /\ UNCHANGED <<now, confVars, info, span, metadata, callerMd, invoked, under, ret,
                 produced, yielded, futVars>>

\* Time passes.
Tick ==
  /\ now < MaxTime
  /\ now' = now + 1
  /\ UNCHANGED <<spans, confVars, syncVars, streamVars, futVars, trace>>

\* ------------------------------------------------- the deferred handle
\* Trailing metadata the remote side may send: none, a header holding a
\* span context, a header the tracer cannot decode.
TrailingChoices == {<<>>, << <<"ot-span-id", "remote-ctx">> >>,
                    << <<"ot-span-id", "corrupt">> >>}

\* The RPC behind a pending handle terminates.
Resolve(c) ==
  /\ rdv[c].state = "pending"
  /\ \E tm \in TrailingChoices :
       \/ \E r \in Responses :
            rdv' = [rdv EXCEPT ![c].state = "ok", ![c].response = r,
                               ![c].trailing = tm]
       \/ \E f \in Failures :
            rdv' = [rdv EXCEPT ![c].state = "failed", ![c].exc = f,
                               ![c].trailing = tm]
  /\ UNCHANGED <<spans, now, confVars, syncVars, streamVars, fwd, rpc, rloc, rout,
                 trace>>

\* The operations of the wrapper other than result()   (lines 58-68, 83-111)
ForwardedOps == {"cancel", "cancelled", "running", "done", "exception",
                 "traceback", "add_callback", "add_done_callback", "is_active",
                 "time_remaining", "initial_metadata", "trailing_metadata",
                 "code", "details"}
\* Operations of the handle that wait for the RPC to terminate.
BlockingOps == {"exception", "traceback", "initial_metadata",
                "trailing_metadata", "code", "details"}
\* Arguments of a call: "a0" is the empty argument list, "a1" one argument
\* (a timeout, a callback), which these operations of the handle take.
Args == {"a0", "a1"}
OpsWithArgument == {"exception", "traceback", "add_callback", "add_done_callback"}
ArgsOf(op) == IF op \in OpsWithArgument THEN Args ELSE {"a0"}

Bool(b) == IF b THEN "True" ELSE "False"

\* The handle's own operations (grpc.Future, grpc.Call): the handle
\* afterwards and what it returns.
HandleCall(h, op, a) ==
  CASE op = "cancel" ->
         IF h.state = "pending"
           THEN [handle |-> [h EXCEPT !.state = "cancelled", !.exc = "CancelledError"],
                 ret |-> "True"]
           ELSE [handle |-> h, ret |-> "False"]
    [] op = "cancelled" -> [handle |-> h, ret |-> Bool(h.state = "cancelled")]
    [] op \in {"running", "is_active"} ->
         [handle |-> h, ret |-> Bool(h.state = "pending")]
    [] op = "done" -> [handle |-> h, ret |-> Bool(h.state # "pending")]
    [] op \in {"exception", "traceback"} ->
         [handle |-> h,
          ret |-> IF h.state = "failed" THEN h.exc
                  ELSE IF h.state = "cancelled" THEN "raise CancelledError"
                  ELSE "None"]
    [] op = "add_callback" -> [handle |-> h, ret |-> Bool(h.state = "pending")]
    [] op = "add_done_callback" -> [handle |-> h, ret |-> "None"]
    [] op = "time_remaining" -> [handle |-> h, ret |-> "None"]
    [] op = "code" ->
         [handle |-> h,
          ret |-> IF h.state = "ok" THEN "OK"
                  ELSE IF h.state = "cancelled" THEN "CANCELLED" ELSE "UNKNOWN"]
    [] op = "details" -> [handle |-> h, ret |-> h.exc]
    [] op = "initial_metadata" -> [handle |-> h, ret |-> "()"]
    [] op = "trailing_metadata" ->
         [handle |-> h, ret |-> IF h.trailing = <<>> THEN "()" ELSE h.trailing[1][2]]

\* (variant: the pass-through method calls the handle without its arguments)
ForwardCallDropsArgs(h, op, a) ==
  LET r == HandleCall(h, op, "a0")
  IN [handle |-> r.handle, received |-> "a0", hret |-> r.ret, wret |-> r.ret]

\* A pass-through method of the wrapper:
\*   return self._rendezvous.<op>(*args, **kwargs)
\* Gives the handle afterwards, the arguments the handle received, what the
\* handle returned and what the wrapper returns.
ForwardCall(h, op, a) ==
  LET r == HandleCall(h, op, a)
  IN [handle |-> r.handle, received |-> a, hret |-> r.ret, wret |-> r.ret]

\* The caller uses one of the wrapper's pass-through operations, after any
\* earlier operation of its own on the wrapper has returned.
Forward(c) ==
  /\ ret[c].kind = "wrapper"
  /\ rpc[c] = "none"
  /\ fwd[c].op = ""
  /\ \E op \in ForwardedOps :
     \E a \in ArgsOf(op) :
       /\ op \in BlockingOps => rdv[c].state # "pending"
       /\ LET r == ForwardCall(rdv[c], op, a)
          IN /\ rdv' = [rdv EXCEPT ![c] = r.handle]
             /\ fwd' = [fwd EXCEPT ![c] =
                  [op |-> op, args |-> a, received |-> r.received,
                   hret |-> r.hret, wret |-> r.wret]]
  /\ UNCHANGED <<spans, now, confVars, syncVars, streamVars, rpc, rloc, rout, trace>>

\* The caller has taken what the pass-through operation returned.
ForwardReturn(c) ==
  /\ fwd[c].op # ""
  /\ fwd' = [fwd EXCEPT ![c] = NoForward]
  /\ UNCHANGED <<spans, now, confVars, syncVars, streamVars, rdv, rpc, rloc, rout,
                 trace>>

\* tracer.extract(HTTP_HEADERS, dict(metadata)) of lines 36-44: the context
\* found, or the codec failure raised.
Extract(md) ==
  IF md = <<>> THEN [ctx |-> "", error |-> ""]
  ELSE IF md[1][2] = "corrupt"
    THEN [ctx |-> "", error |-> "SpanContextCorruptedException"]
  ELSE [ctx |-> md[1][2], error |-> ""]

\* (variant: the extracted context is made the parent of the span)
_OpenTracingRendezvous_start_span_child_of(S, c, method, md, start_time, seq) ==
  LET x == Extract(md)
      refs == IF x.ctx # "" THEN << [type |-> "child_of", ctx |-> x.ctx] >>
              ELSE <<>>
      S1 == Append(S, NewSpan(method, refs,
                              ("component" :> "grpc") @@ ("span.kind" :> "client"),
                              start_time, c, "completion", seq))
  IN IF x.error # "" THEN LogKV(S1, Len(S1), ErrorEvent(x.error, FALSE)) ELSE S1

\* _OpenTracingRendezvous._start_span, from the trailing metadata on
\* (lines 36-56): the spans with the completion span added.
_OpenTracingRendezvous_start_span(S, c, method, md, start_time, seq) ==
  LET x == Extract(md)
      refs == IF x.ctx # "" THEN << [type |-> "follows_from", ctx |-> x.ctx] >>
              ELSE <<>>
      S1 == Append(S, NewSpan(method, refs,
                              ("component" :> "grpc") @@ ("span.kind" :> "client"),
                              start_time, c, "completion", seq))
  IN IF x.error # "" THEN LogKV(S1, Len(S1), ErrorEvent(x.error, FALSE)) ELSE S1

\* self._rendezvous.result(timeout) of the handle: its outcome.  On a
\* pending handle the wait ends only by the timeout.
HandleResult(h, timeout) ==
  CASE h.state = "ok" -> Immediate(h.response, FALSE)
    [] h.state = "failed" -> Raised(h.exc)
    [] h.state = "cancelled" -> Raised("CancelledError")
    [] OTHER -> Raised("FutureTimeoutError")

\* result() is called on the wrapper: _start_span reads the clock and calls
\* trailing_metadata()   (lines 70-71, 34-35)
ResultBegin(c) ==
  /\ ret[c].kind = "wrapper"
  /\ rpc[c] = "none"
  /\ fwd[c].op = ""
  /\ Len(rout[c]) < MaxResultCalls
  /\ \E t \in TimeoutChoices :
       rloc' = [rloc EXCEPT ![c] = [start_time |-> now, timeout |-> t, span |-> 0]]
  /\ rpc' = [rpc EXCEPT ![c] = "trailing"]
  /\ UNCHANGED <<spans, now, confVars, syncVars, streamVars, rdv, fwd, rout, trace>>

\* (variant: the clock is read after trailing_metadata() has returned)
ResultStartSpanReadsClockLate(c) ==
  /\ rpc[c] = "trailing"
  /\ rdv[c].state # "pending"
  /\ spans' = _OpenTracingRendezvous_start_span(spans, c, info[c].full_method, rdv[c].trailing,
                                  now, Len(rout[c]) + 1)
  /\ rloc' = [rloc EXCEPT ![c].span = Len(spans) + 1]
  /\ rpc' = [rpc EXCEPT ![c] = "wait"]
  /\ UNCHANGED <<now, confVars, syncVars, streamVars, rdv, fwd, rout, trace>>

\* trailing_metadata() returns, which it does once the RPC has terminated;
\* the completion span is started   (lines 35-56)
ResultStartSpan(c) ==
  /\ rpc[c] = "trailing"
  /\ rdv[c].state # "pending"
  /\ spans' = _OpenTracingRendezvous_start_span(spans, c, info[c].full_method, rdv[c].trailing,
                                  rloc[c].start_time, Len(rout[c]) + 1)
  /\ rloc' = [rloc EXCEPT ![c].span = Len(spans) + 1]
  /\ rpc' = [rpc EXCEPT ![c] = "wait"]
  /\ UNCHANGED <<now, confVars, syncVars, streamVars, rdv, fwd, rout, trace>>

\* (variant: result() has no except block)
ResultBodyNoExcept(S, i, lp, o) ==
  IF o.kind # "raise" /\ lp THEN LogKV(S, i, ResponseEvent(o.response)) ELSE S

\* The body of result()'s with block   (lines 72-81): the spans afterwards.
ResultBody(S, i, lp, o) ==
  IF o.kind = "raise" THEN OnException(S, i, o.exc)
  ELSE IF lp THEN LogKV(S, i, ResponseEvent(o.response))
  ELSE S

\* self._rendezvous.result(timeout) returns or raises, and result() ends
\* (lines 73-81)
ResultWait(c) ==
  /\ rpc[c] = "wait"
  /\ rdv[c].state = "pending" => rloc[c].timeout # 0
  /\ LET o == HandleResult(rdv[c], rloc[c].timeout)
     IN /\ spans' = WithExit(ResultBody(spans, rloc[c].span, ret[c].log_payloads, o),
                             rloc[c].span)
        /\ rout' = [rout EXCEPT ![c] = Append(@, o)]
  /\ rpc' = [rpc EXCEPT ![c] = "none"]
  /\ rloc' = [rloc EXCEPT ![c] = NoLocals]
  /\ UNCHANGED <<now, confVars, syncVars, streamVars, rdv, fwd, trace>>

\* ------------------------------------------------------- specifications
CallStep(c) ==
  \/ Enter(c) \/ StartSpan(c) \/ Inject(c) \/ Invoke(c)
  \/ InvokerRaises(c) \/ InvokerReturns(c) \/ InvokerReturnsSequence(c)
  \/ GenNext(c) \/ PullItem(c) \/ PullEnds(c) \/ PullRaises(c) \/ GenClose(c)
  \/ Resolve(c) \/ Forward(c) \/ ForwardReturn(c)
  \/ ResultBegin(c) \/ ResultStartSpan(c) \/ ResultWait(c)

Next == Tick \/ \E c \in Calls : CallStep(c)

Spec == Init /\ [][Next]_vars

\* ---------------------------------- the span builder, every configuration
\* Entries traced_attributes may hold: the four attributes of
\* ClientRequestAttribute the loop of lines 163-175 tests for, and a value
\* that is none of them.
Attributes == {"HEADERS", "METHOD_TYPE", "METHOD_NAME", "DEADLINE", "UNKNOWN"}
\* The active_span_source given to the constructor.
ActiveSources == {"None", "idle", "active"}

\* No call has been made.
NoCallsYet ==
  /\ spans = <<>>
  /\ now = 0
  /\ pc = [c \in AllCalls |-> "idle"]
  /\ info = [c \in AllCalls |-> NoInfo]
  /\ span = [c \in AllCalls |-> 0]
  /\ metadata = [c \in AllCalls |-> MdNone]
  /\ callerMd = [c \in AllCalls |-> MdNone]
  /\ invoked = [c \in AllCalls |-> NotInvoked]
  /\ under = [c \in AllCalls |-> NoOutcome]
  /\ ret = [c \in AllCalls |-> NoOutcome]
  /\ produced = [c \in AllCalls |-> <<>>]
  /\ yielded = [c \in AllCalls |-> <<>>]
  /\ gen = [c \in AllCalls |-> NoOutcome]
  /\ rdv = [c \in AllCalls |-> NoHandle]
  /\ fwd = [c \in AllCalls |-> NoForward]
  /\ rpc = [c \in AllCalls |-> "none"]
  /\ rloc = [c \in AllCalls |-> NoLocals]
  /\ rout = [c \in AllCalls |-> <<>>]
  /\ trace = [c \in AllCalls |-> <<>>]

\* An interceptor constructed with any set of attributes and any source.
InitTags ==
  /\ log_payloads \in BOOLEAN
  /\ traced_attributes \in SUBSET Attributes
  /\ active_span_source \in ActiveSources
  /\ NoCallsYet

\* A call up to the return of its invoker.
NextTags ==
  \E c \in Calls :
    \/ Enter(c) \/ GenNext(c) \/ StartSpan(c) \/ Inject(c) \/ Invoke(c)
    \/ InvokerRaises(c) \/ InvokerReturns(c) \/ InvokerReturnsSequence(c)

SpecTags == InitTags /\ [][NextTags]_vars

\* ------------------------------------- two calls through one interceptor
\* What the environment of the concurrent calls does: calls are made
\* without metadata, the tracer's injection succeeds, the remote side
\* answers "r1" or fails with RpcError and sends no trailing metadata, and
\* result() is called without timeout.
ConcScope ==
  \A d \in AllCalls :
    /\ info[d].metadata = MdNone
    /\ invoked[d].inject_failure = ""
    /\ under[d].response \in {"", "r1"} /\ ~under[d].with_call
    /\ under[d].exc \in {"", "RpcError"}
    /\ \A k \in 1..Len(produced[d]) : produced[d][k] = "r1"
    /\ rdv[d].response \in {"", "r1"} /\ rdv[d].exc \in {"", "RpcError"}
    /\ rdv[d].trailing = <<>>
    /\ rloc[d].timeout = 0

InitConc ==
  /\ log_payloads \in BOOLEAN
  /\ traced_attributes \in TracedChoices
  /\ active_span_source \in ActiveChoices
  /\ NoCallsYet

\* A step of either call; the calls run in threads of their callers, any
\* interleaving of their steps can happen.
ConcStep(c) ==
  \/ Enter(c) /\ ConcScope'
  \/ StartSpan(c) /\ ConcScope'
  \/ Inject(c) /\ ConcScope'
  \/ Invoke(c) /\ ConcScope'
  \/ InvokerRaises(c) /\ ConcScope'
  \/ InvokerReturns(c) /\ ConcScope'
  \/ InvokerReturnsSequence(c) /\ ConcScope'
  \/ GenNext(c) /\ ConcScope'
  \/ PullItem(c) /\ ConcScope'
  \/ PullEnds(c) /\ ConcScope'
  \/ PullRaises(c) /\ ConcScope'
  \/ GenClose(c) /\ ConcScope'
  \/ Resolve(c) /\ ConcScope'
  \/ ResultBegin(c) /\ ConcScope'
  \/ ResultStartSpan(c) /\ ConcScope'
  \/ ResultWait(c) /\ ConcScope'

NextConc == \E c \in AllCalls : ConcStep(c)

SpecConc == InitConc /\ [][NextConc]_vars

\* ----------------------------------------------------------- properties
SpanIds == 1..Len(spans)
\* The spans a call started in a role ("submission": the span of the entry
\* point or of the generator; "completion": a span of result()).
SpansOf(c, role) == {i \in SpanIds : spans[i].owner = c /\ spans[i].role = role}
\* The log events of span i that equal e.
EventsEqual(i, e) == {k \in 1..Len(spans[i].logs) : spans[i].logs[k] = e}
ErrorEventsOf(i, isType) ==
  {k \in 1..Len(spans[i].logs) :
     spans[i].logs[k].event = "error" /\ spans[i].logs[k].isType = isType}
InjectFailed(c) == invoked[c].inject_failure # ""

\* The operation that started span i has ended: the entry point returned or
\* raised, the generator ended (exhausted, raised, closed), or the result()
\* call returned or raised.
OperationExited(i) ==
  LET c == spans[i].owner
  IN IF spans[i].role = "completion" THEN spans[i].seq <= Len(rout[c])
     ELSE IF IsServerStream(c) THEN gen[c].kind \in {"stop", "raise", "closed"}
     ELSE ret[c].kind \in {"immediate", "wrapper", "raise"}

\* C1: every span the core starts is finished at most once in every
\* reachable state, and is finished (exactly once) as soon as the operation
\* that started it has returned, raised, or its response sequence has ended.
C1_SpanFinishedExactlyOnce ==
  \A i \in SpanIds :
    /\ spans[i].finishes <= 1
    /\ OperationExited(i) => spans[i].finishes = 1

\* C1 witness: a result() call has raised; its completion span and the
\* submission span of the call are both finished once.
C1_Witness ==
  \E c \in Calls :
    /\ Len(rout[c]) = 1 /\ rout[c][1].kind = "raise"
    /\ \E i \in SpansOf(c, "completion") : spans[i].finishes = 1
    /\ \E i \in SpansOf(c, "submission") : spans[i].finishes = 1

\* A synchronous call (intercept_unary, or intercept_stream without
\* is_server_stream) whose invoker raised.
SyncRaised(c) == info[c].entry # "" /\ ~IsServerStream(c) /\ under[c].kind = "raise"

\* C2 as stated: for every synchronous call whose invoker raises, whatever
\* the injection did, the submission span is tagged error, carries exactly
\* one error log event, is finished, and the same failure is propagated.
C2_ExactlyOneErrorEvent ==
  \A c \in Calls :
    SyncRaised(c) =>
      /\ HasErrorTag(spans, span[c])
      /\ CountEvents(spans, span[c], "error") = 1
      /\ spans[span[c]].finishes = 1
      /\ ret[c] = Raised(under[c].exc)

\* C2 amended: for every synchronous call whose invoker raises, the
\* submission span is tagged error=true, is finished, the same failure is
\* propagated, and the span carries exactly one error log event for the
\* invoker's failure; it is the span's only error event when the injection
\* succeeded, and one more error event (the codec failure) precedes it when
\* the injection failed.
C2_ErrorEventPerFailure ==
  \A c \in Calls :
    SyncRaised(c) =>
      LET i == span[c]
      IN /\ HasErrorTag(spans, i) /\ spans[i].tags["error"] = TRUE
         /\ spans[i].finishes = 1
         /\ ret[c] = Raised(under[c].exc)
         /\ Cardinality(ErrorEventsOf(i, TRUE)) = 1
         /\ ErrorEventsOf(i, TRUE) = EventsEqual(i, ErrorEvent(under[c].exc, TRUE))
         /\ CountEvents(spans, i, "error") = IF InjectFailed(c) THEN 2 ELSE 1
         /\ InjectFailed(c) =>
              spans[i].logs[1] = ErrorEvent(invoked[c].inject_failure, FALSE)

\* C2 witness: a client-streaming call whose injection failed and whose
\* invoker raised.
C2_Witness ==
  \E c \in Calls :
    /\ SyncRaised(c) /\ InjectFailed(c)
    /\ info[c].entry = "intercept_stream"
    /\ ret[c].kind = "raise"

\* C3: for every synchronous call whose invoker returns an immediate
\* result, the core creates exactly one span during the call; the span
\* exists before the invoker is called, is unfinished while the invoker
\* runs, is finished when the entry point has returned, and has no error tag.
C3_OneSpanPerImmediateCall ==
  \A c \in Calls :
    /\ (~IsServerStream(c) /\ invoked[c].called) =>
         /\ span[c] \in SpanIds
         /\ spans[span[c]].owner = c
         /\ pc[c] = "in_invoker" => spans[span[c]].finishes = 0
    /\ (~IsServerStream(c) /\ ret[c].kind = "immediate") =>
         /\ {i \in SpanIds : spans[i].owner = c} = {span[c]}
         /\ spans[span[c]].finishes = 1
         /\ ~HasErrorTag(spans, span[c])
         /\ ret[c] = under[c]

\* C3 witness: a unary call with payload logging has returned the tuple of
\* with_call.
C3_Witness ==
  \E c \in Calls :
    /\ info[c].entry = "intercept_unary" /\ log_payloads
    /\ ret[c].kind = "immediate" /\ ret[c].with_call
    /\ spans[span[c]].finishes = 1

\* C4 as stated: however many times result() is called on a wrapper, the
\* call has at most one completion span.
C4_AtMostOneCompletionSpan ==
  \A c \in Calls : Cardinality(SpansOf(c, "completion")) <= 1

\* The caller holds a wrapper and has never called result() on it.
NeverWaited(c) == ret[c].kind = "wrapper" /\ rpc[c] = "none" /\ rout[c] = <<>>

\* C5: while result() has never been called on a wrapper, the call has no
\* completion span and its only span is the submission span, finished when
\* the entry point returned; a pass-through operation hands its arguments
\* to the handle and returns what the handle returned, and a cancel that
\* the wrapper reports as done has cancelled the handle.
C5_NoSpanWithoutResult ==
  \A c \in Calls :
    NeverWaited(c) =>
      /\ SpansOf(c, "completion") = {}
      /\ {i \in SpanIds : spans[i].owner = c} = {span[c]}
      /\ spans[span[c]].finishes = 1
      /\ fwd[c].op # "" =>
           /\ fwd[c].received = fwd[c].args
           /\ fwd[c].wret = fwd[c].hret
           /\ (fwd[c].op = "cancel" /\ fwd[c].wret = "True")
                => rdv[c].state = "cancelled"
           /\ fwd[c].op = "cancelled"
                => fwd[c].wret = Bool(rdv[c].state = "cancelled")

\* C5 witness: a wrapper never waited on has just been cancelled through
\* the wrapper.
C5_Witness ==
  \E c \in Calls :
    /\ NeverWaited(c)
    /\ fwd[c].op = "cancel" /\ fwd[c].wret = "True"
    /\ rdv[c].state = "cancelled"

\* C6: the stream span is not finished while the generator has not ended;
\* when the underlying sequence ends without error after N items, the
\* consumer has received exactly those N items in order, the span is
\* finished exactly once, has no error tag, and holds N response log events
\* when payload logging is enabled (none otherwise).
C6_StreamFinishedAtExhaustion ==
  \A c \in Calls :
    IsServerStream(c) =>
      /\ (span[c] \in SpanIds /\ gen[c].kind = "none")
           => spans[span[c]].finishes = 0
      /\ under[c].kind = "exhausted" =>
           /\ gen[c] = Stopped
           /\ yielded[c] = produced[c]
           /\ spans[span[c]].finishes = 1
           /\ ~HasErrorTag(spans, span[c])
           /\ CountEvents(spans, span[c], "error")
                = IF InjectFailed(c) THEN 1 ELSE 0
           /\ CountEvents(spans, span[c], "response")
                = IF log_payloads THEN Len(produced[c]) ELSE 0

\* C6 witness: with payload logging, a sequence of two items is exhausted.
C6_Witness ==
  \E c \in Calls :
    /\ IsServerStream(c) /\ log_payloads
    /\ gen[c].kind = "stop" /\ under[c].kind = "exhausted" /\ Len(yielded[c]) = 2
    /\ yielded[c][1] # yielded[c][2]

\* C7: when the invoker or the underlying sequence raises after k items,
\* the consumer has received exactly those k items and then the same
\* failure; at that point the stream span is tagged error=true, holds
\* exactly one error event logged for that failure, is finished exactly
\* once, and the generator has ended (it yields nothing more).
C7_StreamFailure ==
  \A c \in Calls :
    (IsServerStream(c) /\ under[c].exc # "") =>
      LET i == span[c]
      IN /\ yielded[c] = produced[c]
         /\ gen[c] = Raised(under[c].exc)
         /\ HasErrorTag(spans, i) /\ spans[i].tags["error"] = TRUE
         /\ Cardinality(ErrorEventsOf(i, TRUE)) = 1
         /\ ErrorEventsOf(i, TRUE) = EventsEqual(i, ErrorEvent(under[c].exc, TRUE))
         /\ spans[i].finishes = 1
         /\ pc[c] = "done"

\* C7 witness: the sequence raises after one item.
C7_Witness ==
  \E c \in Calls :
    /\ IsServerStream(c) /\ gen[c].kind = "raise"
    /\ Len(yielded[c]) = 1 /\ under[c].kind = "sequence"

\* The core has seen how the call ended: the invoker returned or raised,
\* or the generator ended (the sequence was exhausted or raised, or
\* GeneratorExit was raised at the yield).
OutcomeObserved(c) ==
  IF IsServerStream(c)
    THEN under[c].kind = "raise" \/ gen[c].kind \in {"stop", "raise", "closed"}
    ELSE under[c].kind \in {"immediate", "future", "raise"}

EventOrder == <<"start", "inject", "invoke", "outcome", "finish">>

\* C8: on every call path the events of a call are, in this order, span
\* start, injection, invoker call, outcome, finish: the invoker is called
\* only with a started span and after the injection, and the span is
\* finished only once the outcome has been observed.
C8_EventOrder ==
  \A c \in Calls :
    /\ Len(trace[c]) <= Len(EventOrder)
    /\ trace[c] = SubSeq(EventOrder, 1, Len(trace[c]))
    /\ (span[c] \in SpanIds) = (Len(trace[c]) >= 1)
    /\ invoked[c].called = (Len(trace[c]) >= 3)
    /\ metadata[c] # info[c].metadata => Len(trace[c]) >= 2
    /\ (span[c] \in SpanIds /\ spans[span[c]].finishes > 0)
         => (OutcomeObserved(c) /\ Len(trace[c]) = 5)

\* C8 witness: a bidirectional call whose response sequence was exhausted
\* after an item.
C8_Witness ==
  \E c \in Calls :
    /\ info[c].is_client_stream /\ info[c].is_server_stream
    /\ gen[c].kind = "stop" /\ Len(yielded[c]) >= 1
    /\ trace[c] = EventOrder

\* C9: the invoker is called whatever the injection did, and the caller's
\* metadata is never changed.  After a codec failure the span holds one
\* error event with the codec exception and the invoker receives exactly
\* the metadata given; after a successful injection it receives the given
\* pairs, in order, followed by the tracing headers.
C9_InjectionNeverFailsCall ==
  \A c \in Calls :
    /\ callerMd[c] = info[c].metadata
    /\ (pc[c] = "done" /\ span[c] \in SpanIds) => invoked[c].called
    /\ invoked[c].called =>
         IF InjectFailed(c)
           THEN /\ invoked[c].metadata = info[c].metadata
                /\ Cardinality(ErrorEventsOf(span[c], FALSE)) = 1
                /\ spans[span[c]].logs[1]
                     = ErrorEvent(invoked[c].inject_failure, FALSE)
           ELSE /\ ~invoked[c].metadata.isNone
                /\ invoked[c].metadata.pairs
                     = info[c].metadata.pairs \o Headers(span[c])
                /\ ErrorEventsOf(span[c], FALSE) = {}

\* C9 witness: the invoker has been called with the caller's pairs after
\* the injection failed.
C9_Witness ==
  \E c \in Calls :
    /\ invoked[c].called /\ InjectFailed(c)
    /\ ~info[c].metadata.isNone
    /\ invoked[c].metadata = info[c].metadata

\* The completion span of the k-th result() call on the wrapper of call c.
CompletionSpan(c, k) ==
  CHOOSE i \in SpansOf(c, "completion") : spans[i].seq = k

\* C10: every finished result() call gave the outcome of the handle.  When
\* it raised, its completion span is tagged error=true, holds one error
\* event logged for the failure and is finished; when it returned, the
\* span is finished without error tag and the handle's response was
\* returned.  The submission span stays as it was when the entry point
\* returned: finished once, no error tag, no response or failure event.
C10_ResultOutcome ==
  \A c \in Calls :
    ret[c].kind = "wrapper" =>
      /\ \A k \in 1..Len(rout[c]) :
           LET i == CompletionSpan(c, k)
               o == rout[c][k]
           IN /\ \E j \in SpansOf(c, "completion") : spans[j].seq = k
              /\ spans[i].finishes = 1
              /\ o.kind \in {"raise", "immediate"}
              /\ o.kind = "raise" =>
                   /\ \/ rdv[c].state = "failed" /\ o.exc = rdv[c].exc
                      \/ rdv[c].state = "cancelled" /\ o.exc = "CancelledError"
                   /\ HasErrorTag(spans, i) /\ spans[i].tags["error"] = TRUE
                   /\ Cardinality(ErrorEventsOf(i, TRUE)) = 1
                   /\ ErrorEventsOf(i, TRUE) = EventsEqual(i, ErrorEvent(o.exc, TRUE))
              /\ o.kind = "immediate" =>
                   /\ rdv[c].state = "ok" /\ o.response = rdv[c].response
                   /\ ~HasErrorTag(spans, i)
                   /\ ErrorEventsOf(i, TRUE) = {}
      /\ spans[span[c]].finishes = 1
      /\ ~HasErrorTag(spans, span[c])
      /\ ErrorEventsOf(span[c], TRUE) = {}
      /\ CountEvents(spans, span[c], "response") = 0

\* C10 witness: result() raised because the handle had been cancelled.
C10_Witness ==
  \E c \in Calls :
    /\ rdv[c].state = "cancelled"
    /\ Len(rout[c]) >= 1 /\ rout[c][1] = Raised("CancelledError")
    /\ HasErrorTag(spans, CompletionSpan(c, 1))

TagOf ==
  ("HEADERS" :> "grpc.headers") @@ ("METHOD_TYPE" :> "grpc.method_type")
    @@ ("METHOD_NAME" :> "grpc.method_name")
    @@ ("DEADLINE" :> "grpc.deadline_millis")

\* C12: the tags a submission span is started with are component=grpc,
\* span.kind=client and one tag for each recognised entry of
\* traced_attributes, nothing else, and they stay (the only tag a call adds
\* later is error, when its invoker raised); an entry that is not
\* recognised adds no tag and the call goes on (it raises only what its
\* invoker raised).  A unary call to "/pkg.Service/Get" with
\* traced_attributes = {METHOD_NAME} has exactly the tags
\* grpc.method_name="/pkg.Service/Get", component="grpc", span.kind="client".
C12_SubmissionTags ==
  \A c \in Calls :
    /\ pc[c] \in {"inject", "invoke", "in_invoker", "pull"} => span[c] \in SpanIds
    /\ invoked[c].called => span[c] \in SpanIds
    /\ ret[c].kind = "raise" => under[c].kind = "raise"
    /\ gen[c].kind = "raise" => under[c].kind = "raise"
    /\ \A i \in SpansOf(c, "submission") :
         /\ DOMAIN spans[i].tags \ {"error"}
              = {"component", "span.kind"}
                  \cup {TagOf[a] : a \in traced_attributes \cap DOMAIN TagOf}
         /\ HasErrorTag(spans, i) => under[c].kind = "raise"
         /\ spans[i].tags["component"] = "grpc"
         /\ spans[i].tags["span.kind"] = "client"
         /\ "METHOD_NAME" \in traced_attributes =>
              spans[i].tags["grpc.method_name"] = info[c].full_method
         /\ "HEADERS" \in traced_attributes =>
              spans[i].tags["grpc.headers"] = info[c].metadata
         /\ ( /\ traced_attributes = {"METHOD_NAME"}
              /\ info[c].entry = "intercept_unary"
              /\ info[c].full_method = "/pkg.Service/Get"
              /\ under[c].kind # "raise" ) =>
              spans[i].tags = ("grpc.method_name" :> "/pkg.Service/Get")
                                @@ ("component" :> "grpc")
                                @@ ("span.kind" :> "client")

\* C12 witness: with an entry that is not recognised next to METHOD_NAME,
\* the span has its three tags and the invoker has returned.
C12_Witness ==
  \E c \in Calls :
    /\ traced_attributes = {"METHOD_NAME", "UNKNOWN"}
    /\ info[c].entry = "intercept_unary" /\ ret[c].kind = "immediate"
    /\ span[c] \in SpanIds
    /\ DOMAIN spans[span[c]].tags = {"component", "span.kind", "grpc.method_name"}

\* C13: once intercept_stream has returned the response sequence of a
\* server-streaming or bidirectional call, and until that sequence has
\* been exhausted, has raised or has been closed, the submission span is
\* started and not finished, also before the caller has pulled an item.
C13_SpanOpenOnceSequenceReturned ==
  \A c \in Calls :
    (IsServerStream(c) /\ ret[c].kind = "generator" /\ gen[c].kind = "none") =>
      /\ span[c] \in SpanIds
      /\ spans[span[c]].finishes = 0

\* C14: a call that is client-streaming and not server-streaming, with
\* payload logging on: the invoker is given the request iterator inside the
\* logging wrapper (which logs each item the invoker takes and passes it
\* on), and an immediate response is on the span, as its last event, when
\* the span is finished.
C14_ClientStreamPayloadsLogged ==
  \A c \in Calls :
    ( /\ info[c].entry = "intercept_stream"
      /\ info[c].is_client_stream /\ ~info[c].is_server_stream
      /\ log_payloads ) =>
      /\ invoked[c].called =>
           (invoked[c].wrapped /\ invoked[c].request = info[c].request)
      /\ (pc[c] = "done" /\ under[c].kind = "immediate") =>
           /\ spans[span[c]].finishes = 1
           /\ CountEvents(spans, span[c], "response") = 1
           /\ spans[span[c]].logs[Len(spans[span[c]].logs)]
                = ResponseEvent(under[c].response)

\* C15: result() reads the clock when it is entered, before it calls
\* trailing_metadata() and result() on the handle; the completion span is
\* started, once trailing_metadata() has returned, with that reading as its
\* start time.  The start time is thus not later than the time the wait
\* ends, and it is a reading of the clock in result(), not earlier than the
\* start of the submission span.
C15_StartTimeReadBeforeWait ==
  /\ [](\A c \in Calls :
          /\ rpc[c] # "none" => rloc[c].start_time <= now
          /\ rpc[c] = "trailing" => rloc[c].span = 0
          /\ rpc[c] = "wait" =>
               /\ rloc[c].span \in SpansOf(c, "completion")
               /\ spans[rloc[c].span].start_time = rloc[c].start_time
          /\ \A i \in SpansOf(c, "completion") :
               /\ spans[i].start_time <= now
               /\ spans[i].start_time >= spans[span[c]].start_time)
  /\ [][\A c \in Calls :
          /\ (rpc[c] = "none" /\ rpc'[c] = "trailing") =>
               (rloc'[c].start_time = now /\ spans' = spans /\ rdv' = rdv)
          /\ (rpc[c] = "trailing" /\ rpc'[c] = "wait") =>
               /\ rdv[c].state # "pending"
               /\ Len(spans') = Len(spans) + 1
               /\ spans'[Len(spans')].start_time = rloc[c].start_time
               /\ rloc'[c].start_time = rloc[c].start_time
       ]_vars

\* C15 witness: result() was entered at time 1, after the call was
\* submitted at time 0; trailing_metadata() has returned at time 2, and the
\* completion span starts at time 1.
C15_Witness ==
  \E c \in Calls :
    /\ rpc[c] = "wait" /\ now = 2
    /\ spans[span[c]].start_time = 0
    /\ spans[rloc[c].span].start_time = 1

\* C16: a completion span refers to a context exactly when the trailing
\* metadata held one the tracer could extract, and then by one follows_from
\* reference to that context.  With no trailing metadata, or when the
\* extraction raised, the span is there without reference; when the
\* extraction raised, its first event is the one error event holding the
\* codec exception.  No reference is child_of, and result() raises only
\* when the handle failed or was cancelled.
C16_FollowsFromIffExtracted ==
  \A c \in Calls :
    /\ \A k \in 1..Len(rout[c]) :
         /\ \E i \in SpansOf(c, "completion") : spans[i].seq = k
         /\ (rout[c][k].kind = "raise") = (rdv[c].state # "ok")
    /\ \A i \in SpansOf(c, "completion") :
         LET tm == rdv[c].trailing
             refs == spans[i].references
         IN /\ \A k \in 1..Len(refs) : refs[k].type = "follows_from"
            /\ tm = <<>> => (refs = <<>> /\ ErrorEventsOf(i, FALSE) = {})
            /\ (tm # <<>> /\ tm[1][2] = "corrupt") =>
                 /\ refs = <<>>
                 /\ Cardinality(ErrorEventsOf(i, FALSE)) = 1
                 /\ spans[i].logs[1]
                      = ErrorEvent("SpanContextCorruptedException", FALSE)
            /\ (tm # <<>> /\ tm[1][2] # "corrupt") =>
                 /\ refs = << [type |-> "follows_from", ctx |-> tm[1][2]] >>
                 /\ ErrorEventsOf(i, FALSE) = {}

\* C16 witness: the extraction raised, the handle had a response, and
\* result() returned it; another run has a span with its reference.
C16_Witness ==
  \E c \in Calls :
    /\ rdv[c].state = "ok" /\ rdv[c].trailing # <<>>
    /\ rdv[c].trailing[1][2] = "corrupt"
    /\ Len(rout[c]) >= 1 /\ rout[c][1].kind = "immediate"
    /\ spans[CompletionSpan(c, 1)].references = <<>>
    /\ ErrorEventsOf(CompletionSpan(c, 1), FALSE) # {}

\* C17: a submission span has the one reference child_of the active span's
\* context when the interceptor has an active-span source and that source
\* gives a span; without source, or when the source gives no span, it has
\* no reference.  No step changes the source.
C17_ChildOfActiveSpan ==
  /\ [](\A c \in Calls : \A i \in SpansOf(c, "submission") :
          IF active_span_source = "active"
            THEN spans[i].references
                   = << [type |-> "child_of", ctx |-> "active-ctx"] >>
            ELSE spans[i].references = <<>>)
  /\ [][active_span_source' = active_span_source]_vars

\* C17 witness: a span started as child of the active span, its call done.
C17_Witness ==
  \E c \in Calls :
    /\ active_span_source = "active" /\ pc[c] = "done"
    /\ span[c] \in SpanIds
    /\ Len(spans[span[c]].references) = 1
    /\ spans[span[c]].references[1].type = "child_of"

\* C18: a result(timeout) call with a timeout never waits for the handle
\* to resolve: wherever it is, it can go on by itself (to the end of the
\* timeout at the latest, when the handle's result(timeout) raises).
C18_ResultHonoursTimeout ==
  \A c \in Calls :
    (rpc[c] # "none" /\ rloc[c].timeout # 0) =>
      ENABLED (ResultStartSpan(c) \/ ResultWait(c))

\* C19: when the consumer has closed the generator and neither the invoker
\* nor the sequence raised, the stream's span, if the generator had started
\* one, is finished once, has no error tag and no error event.
C19_CloseLeavesNoError ==
  \A c \in Calls :
    ( /\ IsServerStream(c) /\ gen[c].kind = "closed"
      /\ under[c].kind # "raise" /\ under[c].exc = ""
      /\ span[c] \in SpanIds ) =>
      /\ spans[span[c]].finishes = 1
      /\ ~HasErrorTag(spans, span[c])
      /\ CountEvents(spans, span[c], "error") = 0

\* The call that started span i has failed in the operation the span is of.
OwnerFailed(i) ==
  LET c == spans[i].owner
  IN IF spans[i].role = "completion"
       THEN spans[i].seq <= Len(rout[c]) /\ rout[c][spans[i].seq].kind = "raise"
     ELSE IF IsServerStream(c) THEN gen[c].kind \in {"raise", "closed"}
     ELSE ret[c].kind = "raise"

\* What call d holds: its frames' locals and what it has seen.
CallState(d) ==
  <<pc[d], info[d], span[d], metadata[d], invoked[d], under[d], ret[d],
    produced[d], yielded[d], gen[d], rpc[d], rloc[d], rout[d], trace[d]>>

\* C20: with two calls in any interleaving, every span is one call's own:
\* the spans the two calls hold are different ones, a span has the error tag
\* or an error event only when the call that started it failed, it is
\* finished at most once and only when that call's operation has ended, and
\* a step that changes a span (a tag, an event, the finish) is a step of the
\* call that started it and of no other call.
C20_SpansTouchedByOwnerOnly ==
  /\ [](\A i \in SpanIds :
          /\ spans[i].owner \in AllCalls
          /\ spans[i].role = "submission" => span[spans[i].owner] = i
          /\ spans[i].finishes <= 1
          /\ spans[i].finishes = 1 => OperationExited(i)
          /\ HasErrorTag(spans, i) => OwnerFailed(i)
          /\ ErrorEventsOf(i, TRUE) # {} => OwnerFailed(i))
  /\ [](\A c \in AllCalls :
          /\ span[c] # 0 => (span[c] \in SpanIds /\ spans[span[c]].owner = c)
          /\ rloc[c].span # 0 =>
               (rloc[c].span \in SpanIds /\ spans[rloc[c].span].owner = c))
  /\ [][\A i \in SpanIds :
          spans'[i] # spans[i] =>
            /\ CallState(spans[i].owner)' # CallState(spans[i].owner)
            /\ \A d \in AllCalls \ {spans[i].owner} : CallState(d)' = CallState(d)
       ]_vars

\* C20 witness: two calls were under way together, one raised and the other
\* returned: the first one's span has the error tag, the other's has not,
\* and both are finished.
C20_Witness ==
  /\ pc[1] = "done" /\ pc[2] = "done"
  /\ span[1] = 2 /\ span[2] = 1
  /\ ret[1].kind = "raise" /\ ret[2].kind = "immediate"
  /\ HasErrorTag(spans, span[1]) /\ ~HasErrorTag(spans, span[2])
  /\ spans[1].finishes = 1 /\ spans[2].finishes = 1

====
